---- MODULE Spec2Model ----
(***************************************************************************)
(* Rink booking backend (backend/server.js): the pricing function, the     *)
(* segmenter, the checkout handler, the Stripe webhook handler and the     *)
(* two Supabase tables they share (bookings, slot_holds), and the listing  *)
(* handler GET /api/slots.                                                 *)
(*                                                                         *)
(* Instants are JavaScript Date values: integer milliseconds.  The model's *)
(* epoch 0 is a Monday 00:00 in the server's local time zone (no DST       *)
(* change inside the modelled week).  A timestamp string travelling in a   *)
(* request body or in Stripe metadata is a record [form, ms]: form "Z" is  *)
(* what Date.prototype.toISOString prints, "offset" is another ISO-8601    *)
(* spelling of the same instant, "bad" is a string Date cannot parse.      *)
(***************************************************************************)
EXTENDS Integers, Sequences, FiniteSets, Bags, TLC

\* ------------------------------------------------------------------ time
MINUTE_MS == 60 * 1000
HOUR_MS == 60 * 60 * 1000
DAY_MS == 24 * HOUR_MS
MIN_SEGMENT_MS == 40 * 60 * 1000
HOLD_TTL_MS == 15 * 60 * 1000

\* A Date whose time value is NaN ("Invalid Date").
NaN == -1

\* the instant of local day d (0 = Monday), h:m
At(d, h, m) == d * DAY_MS + (h * 60 + m) * MINUTE_MS

\* new Date(str): the instant a timestamp string denotes, NaN when unparseable
ParseDate(str) == IF str.form = "bad" THEN NaN ELSE str.ms

\* date.toISOString(): the canonical UTC spelling of an instant
toISOString(d) == [form |-> "Z", ms |-> d]

\* Date getters, local time
getHours(d) == (d \div HOUR_MS) % 24
getMinutes(d) == (d \div MINUTE_MS) % 60
getDay(d) == ((d \div DAY_MS) + 1) % 7

\* ------------------------------------------------------------------ slot id
\* sha256(start.toISOString() + '__' + end.toISOString()), first 24 hex digits:
\* a function of the two canonical strings, taken as collision-free.
slotId(start, end) == <<"sha256", toISOString(start).ms, toISOString(end).ms>>

\* a field that is absent from a request body or from Stripe metadata (the
\* JavaScript value undefined); a column left out of an inserted row is NULL
Undefined == <<"undefined", 0, 0>>

\* ------------------------------------------------------------------ pricing
\* a weekend that is Sunday alone
isWeekend_SundayOnly(d) == getDay(d) = 0

isWeekend(d) == getDay(d) = 0 \/ getDay(d) = 6

\* a weekday table without its last band, 21:45-22:45
rateCentsAt_NoLateBand(date) ==
  LET t == getHours(date) * 60 + getMinutes(date)
  IN  IF ~isWeekend(date)
      THEN IF t >= (5*60+35) /\ t < (6*60+35) THEN 25000
           ELSE IF t >= (6*60+35) /\ t < (15*60+45) THEN 49500
           ELSE IF t >= (15*60+45) /\ t < (21*60+45) THEN 94500
           ELSE 0
      ELSE IF t >= (5*60+50) /\ t < (6*60+50) THEN 25000
           ELSE IF t >= (6*60+50) /\ t < (21*60+45) THEN 94500
           ELSE IF t >= (21*60+45) /\ t < (22*60+45) THEN 49500
           ELSE 0

rateCentsAt(date) ==
  LET t == getHours(date) * 60 + getMinutes(date)
  IN  IF ~isWeekend(date)
      THEN IF t >= (5*60+35) /\ t < (6*60+35) THEN 25000
           ELSE IF t >= (6*60+35) /\ t < (15*60+45) THEN 49500
           ELSE IF t >= (15*60+45) /\ t < (21*60+45) THEN 94500
           ELSE IF t >= (21*60+45) /\ t < (22*60+45) THEN 49500
           ELSE 0
      ELSE IF t >= (5*60+50) /\ t < (6*60+50) THEN 25000
           ELSE IF t >= (6*60+50) /\ t < (21*60+45) THEN 94500
           ELSE IF t >= (21*60+45) /\ t < (22*60+45) THEN 49500
           ELSE 0

\* Math.floor(x / 60)
RoundDiv60_Floor(x) == x \div 60

\* Math.round(x / 60) for x >= 0: nearest integer, halves up
RoundDiv60(x) == (2 * x + 60) \div 120

\* what one pass of the while loop adds to total: the pass with cur = date
MinuteCents(date) ==
  IF rateCentsAt(date) > 0 THEN RoundDiv60(rateCentsAt(date)) ELSE 0

\* number of passes of "while (cur < end)" when cur starts at start and grows
\* by one minute per pass: the least n with start + n minutes >= end
LoopPasses(start, end) == (end - start + MINUTE_MS - 1) \div MINUTE_MS

\* a loop that charges every pass at the rate in force at start
PriceLoop_StartRate(start, lo, hi) ==
  IF lo > hi THEN 0 ELSE (hi - lo + 1) * MinuteCents(start)

\* total after the passes numbered lo..hi (pass k runs with cur = start + k
\* minutes); the passes are summed in halves to keep the evaluation shallow
RECURSIVE PriceLoop(_, _, _)
PriceLoop(start, lo, hi) ==
  IF lo > hi THEN 0
  ELSE IF lo = hi THEN MinuteCents(start + lo * MINUTE_MS)
  ELSE LET mid == (lo + hi) \div 2
       IN  PriceLoop(start, lo, mid) + PriceLoop(start, mid + 1, hi)

\* a price function that takes the two instants in either order
priceIntervalCents_EitherOrder(startISO, endISO) ==
  LET start == ParseDate(startISO)
      end == ParseDate(endISO)
  IN  IF start = NaN \/ end = NaN \/ end = start THEN 0
      ELSE IF end < start THEN PriceLoop(end, 0, LoopPasses(end, start) - 1)
      ELSE PriceLoop(start, 0, LoopPasses(start, end) - 1)

priceIntervalCents(startISO, endISO) ==
  LET start == ParseDate(startISO)
      end == ParseDate(endISO)
  IN  IF start = NaN \/ end = NaN \/ end <= start THEN 0
      ELSE PriceLoop(start, 0, LoopPasses(start, end) - 1)

\* ------------------------------------------------------------------ segmenter
RECURSIVE SegmentLoop(_, _, _)
SegmentLoop(cur, e, out) ==
  IF cur < e
  THEN IF cur + HOUR_MS <= e
       THEN SegmentLoop(cur + HOUR_MS, e, Append(out, [start |-> cur, end |-> cur + HOUR_MS]))
       ELSE IF e - cur >= MIN_SEGMENT_MS
            THEN Append(out, [start |-> cur, end |-> e])
            ELSE out
  ELSE out

\* a segmenter that offers nothing unless the event is longer than 40 minutes
expandIntoSegments40_Over40(startDate, endDate) ==
  IF endDate - startDate <= MIN_SEGMENT_MS THEN <<>>
  ELSE SegmentLoop(startDate, endDate, <<>>)

\* a segmenter that cuts an hour whenever 40 minutes are left, running past the
\* event's end
RECURSIVE HourLoop(_, _, _)
HourLoop(cur, e, out) ==
  IF e - cur >= MIN_SEGMENT_MS
  THEN HourLoop(cur + HOUR_MS, e, Append(out, [start |-> cur, end |-> cur + HOUR_MS]))
  ELSE out

expandIntoSegments40_WholeHours(startDate, endDate) ==
  IF endDate - startDate < MIN_SEGMENT_MS THEN <<>>
  ELSE HourLoop(startDate, endDate, <<>>)

expandIntoSegments40(startDate, endDate) ==
  IF endDate - startDate < MIN_SEGMENT_MS THEN <<>>
  ELSE SegmentLoop(startDate, endDate, <<>>)

\* ------------------------------------------------------------------ bounds
\* what a run may use up in all: checkout sessions created, plus rows inserted
\* into bookings, plus clock steps
MaxBudget == 4

\* length of one clock step, and the instant the model starts at (Monday 08:50)
TICK_MS == 15 * MINUTE_MS
StartNow == At(0, 8, 50)

\* the longest event handed to the segmenter on its own, in whole hours (an
\* event may run up to an hour less one millisecond longer)
MaxHours == 3

\* ------------------------------------------------------------------ inputs
\* the calendar feed: one block of open ice, Monday 09:00-10:40
RawIntervals == { [start |-> At(0, 9, 0), end |-> At(0, 10, 40)] }

SeqRange(s) == { s[i] : i \in DOMAIN s }

\* every segment the segmenter derives from the feed
FeedSegments == UNION { SeqRange(expandIntoSegments40(r.start, r.end)) : r \in RawIntervals }

Iso(ms) == [form |-> "Z", ms |-> ms]

Body(sid, s, e, who, price) ==
  [slotId |-> sid, start |-> s, end |-> e, name |-> who, email |-> who, price |-> price]

\* request bodies of POST /api/create-checkout-session.  Every field is chosen
\* by the client: the id need not be slotId(start, end), the range need not be
\* a segment of the feed, and the body may carry a price.
\*   - the segment 09:00-10:00 under its own id, with two different prices
\*     written into the body by the client,
\*   - 09:30-10:00 (30 minutes, no segment of the feed, inside 09:00-10:00)
\*     under the id of the segment 10:00-10:40,
\*   - an inverted range.
RequestBodies ==
  { Body(slotId(At(0,9,0), At(0,10,0)), Iso(At(0,9,0)), Iso(At(0,10,0)), "ann", 1),
    Body(slotId(At(0,9,0), At(0,10,0)), Iso(At(0,9,0)), Iso(At(0,10,0)), "ann", 49500),
    Body(slotId(At(0,10,0), At(0,10,40)), Iso(At(0,9,30)), Iso(At(0,10,0)), "bob", 1),
    Body(slotId(At(0,10,0), At(0,10,40)), Iso(At(0,10,0)), Iso(At(0,9,0)), "ann", 1) }

\* what the calendar feed can return to a listing request: the block above, or
\* (the calendar having been edited) a block that is over, Monday 06:40-07:30,
\* with a block that started in the past, Monday 07:50-09:35, or a late block,
\* Monday 21:50-23:30, that runs past the last rate band
Feeds ==
  { RawIntervals,
    { [start |-> At(0, 6, 40), end |-> At(0, 7, 30)],
      [start |-> At(0, 7, 50), end |-> At(0, 9, 35)] },
    { [start |-> At(0, 21, 50), end |-> At(0, 23, 30)] } }

\* request bodies of the requests that are served one at a time:
\*   - the two segments of the feed under their own ids, the second with its
\*     timestamps written with a UTC offset instead of "Z",
\*   - the first segment without slotId,
\*   - under the first segment's id: an unparseable start, a zero-length range
\*     and an inverted range,
\*   - Monday 23:00-23:40, when no rate applies, under its own id.
OpsBodies ==
  { Body(slotId(At(0,9,0), At(0,10,0)), Iso(At(0,9,0)), Iso(At(0,10,0)), "ann", 1),
    Body(slotId(At(0,10,0), At(0,10,40)),
         [form |-> "offset", ms |-> At(0,10,0)], [form |-> "offset", ms |-> At(0,10,40)], "bob", 1),
    Body(Undefined, Iso(At(0,9,0)), Iso(At(0,10,0)), "cat", 1),
    Body(slotId(At(0,9,0), At(0,10,0)), [form |-> "bad", ms |-> 0], Iso(At(0,10,0)), "dan", 1),
    Body(slotId(At(0,9,0), At(0,10,0)), Iso(At(0,9,0)), Iso(At(0,9,0)), "dan", 1),
    Body(slotId(At(0,9,0), At(0,10,0)), Iso(At(0,10,0)), Iso(At(0,9,0)), "dan", 1),
    Body(slotId(At(0,23,0), At(0,23,40)), Iso(At(0,23,0)), Iso(At(0,23,40)), "dan", 1) }

\* handler slots: the requests that can be in flight at once.  Slots are
\* interchangeable, so a new request always takes the lowest free one.
CheckoutHandlers == {1, 2}
WebhookHandlers == {1, 2}

\* ------------------------------------------------------------------ state
VARIABLES
  now,         \* the server clock (Date.now())
  bookings,    \* table bookings: a bag of rows
  slot_holds,  \* table slot_holds: a bag of rows
  sessions,    \* Stripe checkout sessions, in creation order; a session's id is its index
  paid,        \* ids of the sessions whose payment completed
  co,          \* per checkout request in flight: its position and locals
  wh,          \* per webhook delivery in flight: its position and locals
  res,         \* the HTTP response the last step sent, if it sent one
  supabase,    \* the Supabase client: "null" when not configured, else "ok" or
               \* "error" as its calls at this moment succeed or come back with an error
  ls,          \* the listing request in flight: its position and locals
  call         \* a call of a pure function on its own: its arguments and what it
               \* has returned

vars == <<now, bookings, slot_holds, sessions, paid, co, wh, res, supabase, ls, call>>

\* no call of a pure function under way
NoCall == [fn |-> "none"]

NoBody == Body(<<"none", 0, 0>>, Iso(0), Iso(0), "", 0)

\* a handler slot with no request in flight.  keep and resp are history: a
\* request started with keep set leaves its response status in resp and its
\* slot at "done" (it is not reused); otherwise the slot returns to "idle".
CoIdle ==
  [pc |-> "idle", body |-> NoBody, expiresAt |-> Iso(0), amountCents |-> 0,
   session |-> 0, keep |-> FALSE, resp |-> 0]

CoDone(status) == [CoIdle EXCEPT !.pc = "done", !.keep = TRUE, !.resp = status]

NoRes == [route |-> "", handler |-> 0, status |-> 0]

WhIdle == [pc |-> "idle", event |-> 0, seq |-> FALSE]

\* no listing request in flight.  A request that was answered 200 stays at
\* "done" with the body it sent in out until the client has read it.
LsIdle == [pc |-> "idle", now |-> 0, expanded |-> {}, bookedSet |-> {}, out |-> {}]

Init ==
  /\ now = StartNow
  /\ bookings = EmptyBag
  /\ slot_holds = EmptyBag
  /\ sessions = <<>>
  /\ paid = {}
  /\ co = [h \in CheckoutHandlers |-> CoIdle]
  /\ wh = [w \in WebhookHandlers |-> WhIdle]
  /\ res = NoRes
  /\ supabase = "ok"
  /\ ls = LsIdle
  /\ call = NoCall

\* what the run has used of MaxBudget; a request in flight that may still
\* create a session or insert a booking counts as having done so
Used ==
  Len(sessions) + BagCardinality(bookings) + (now - StartNow) \div TICK_MS
  + Cardinality({ g \in CheckoutHandlers : co[g].pc \in {"q_booking", "q_hold", "create_session"} })
  + Cardinality({ v \in WebhookHandlers : wh[v].pc \in {"q_booking", "insert_booking"} })

\* ------------------------------------------------------------------ datastore
\* .eq('slot_id', sid): the rows of a table with that slot_id.  An undefined
\* sid is sent as the text "undefined", which no stored slot_id equals (a row
\* inserted without slot_id has NULL there).
SelectEq(table, sid) ==
  [r \in { x \in DOMAIN table : sid # Undefined /\ x.slot_id = sid } |-> table[r]]

\* .eq('slot_id', sid).gt('expires_at', t): the unexpired holds of a slot
SelectActiveHolds(table, sid, t) ==
  [r \in { x \in DOMAIN table :
             sid # Undefined /\ x.slot_id = sid /\ x.expires_at.ms > t.ms } |-> table[r]]

\* .maybeSingle(): the row when the query matches exactly one, otherwise data is
\* null (no row; or several rows, which supabase-js reports as an error with
\* data null).  <<>> stands for null.
maybeSingle(rows) ==
  IF BagCardinality(rows) = 1 THEN <<CHOOSE r \in DOMAIN rows : TRUE>> ELSE <<>>

\* existing.data, activeHold.data: what the handler reads of a .maybeSingle()
\* response.  A call that fails does not throw: it resolves to an object with
\* error set and data null.
data(rows) == IF supabase = "error" THEN <<>> ELSE maybeSingle(rows)

\* .insert(row)
Insert(table, row) == table (+) SetToBag({row})

\* await supabase.from(table).insert(row): the tables that can result.  A call
\* that fails stores nothing and does not throw.  Whether a row without
\* slot_id is stored depends on the table's schema, which the repository does
\* not define.
InsertResults(table, row) ==
  IF supabase = "error" THEN {table}
  ELSE IF row.slot_id = Undefined THEN {table, Insert(table, row)}
  ELSE {Insert(table, row)}

\* .delete().eq('slot_id', sid)
DeleteEq(table, sid) ==
  IF supabase = "error" \/ sid = Undefined THEN table
  ELSE [r \in { x \in DOMAIN table : x.slot_id # sid } |-> table[r]]

\* ------------------------------------------------------------------ checkout
\* POST /api/create-checkout-session.  Each await of the handler is a step of
\* its own; the other requests and the clock may move between two steps.

\* res.status(status).json(...): the request is over
Respond(h, status) ==
  /\ co' = [co EXCEPT ![h] = IF co[h].keep THEN CoDone(status) ELSE CoIdle]
  /\ res' = [route |-> "checkout", handler |-> h, status |-> status]

\* a step that goes on without answering
Goes(h, rec) ==
  /\ co' = [co EXCEPT ![h] = rec]
  /\ res' = NoRes

\* a handler that does not look whether it has a Supabase client
CheckoutStart_NoClientCheck(h, body) ==
  /\ co[h].pc = "idle"
  /\ \A g \in CheckoutHandlers : g < h => co[g].pc # "idle"
  /\ Used < MaxBudget
  /\ Goes(h, [CoIdle EXCEPT !.pc = "q_booking", !.body = body])
  /\ UNCHANGED <<now, bookings, slot_holds, sessions, paid, wh, supabase, ls, call>>

\* the request arrives; without a Supabase client it is answered 500, else the
\* handler reads the body
CheckoutStart(h, body) ==
  /\ co[h].pc = "idle"
  /\ \A g \in CheckoutHandlers : g < h => co[g].pc # "idle"
  /\ Used < MaxBudget
  /\ IF supabase = "null"
     THEN Respond(h, 500)
     ELSE Goes(h, [CoIdle EXCEPT !.pc = "q_booking", !.body = body])
  /\ UNCHANGED <<now, bookings, slot_holds, sessions, paid, wh, supabase, ls, call>>

\* "Already booked?"
CheckoutQueryBooking(h) ==
  /\ co[h].pc = "q_booking"
  /\ LET existing == data(SelectEq(bookings, co[h].body.slotId))
     IN  IF existing # <<>>
         THEN Respond(h, 409)
         ELSE Goes(h, [co[h] EXCEPT !.pc = "q_hold"])
  /\ UNCHANGED <<now, bookings, slot_holds, sessions, paid, wh, supabase, ls, call>>

\* a hold that lives 10 minutes instead of 15
ExpiresAt_Short(t) == toISOString(t + 10 * MINUTE_MS)

\* new Date(Date.now() + 15 * 60 * 1000).toISOString()
ExpiresAt(t) == toISOString(t + HOLD_TTL_MS)

\* a handler that charges the price written in the request body
AmountCents_FromBody(body) == body.price

\* priceIntervalCents is a pure function of its two arguments: its value for
\* the start and end of every request body, computed once
PriceCache ==
  [r \in { <<b.start, b.end>> : b \in RequestBodies \cup OpsBodies }
     |-> priceIntervalCents(r[1], r[2])]

\* the amount the handler charges for a request body:
\* priceIntervalCents(start, end)
AmountCents(body) == PriceCache[<<body.start, body.end>>]

\* "Active hold?", then the expiry and the price
CheckoutQueryHold(h) ==
  /\ co[h].pc = "q_hold"
  /\ LET activeHold == data(SelectActiveHolds(slot_holds, co[h].body.slotId, toISOString(now)))
         amountCents == AmountCents(co[h].body)
     IN  IF activeHold # <<>>
         THEN Respond(h, 409)
         ELSE IF amountCents <= 0
         THEN Respond(h, 400)
         ELSE Goes(h, [co[h] EXCEPT !.pc = "create_session",
                                    !.expiresAt = ExpiresAt(now),
                                    !.amountCents = amountCents])
  /\ UNCHANGED <<now, bookings, slot_holds, sessions, paid, wh, supabase, ls, call>>

\* the session stripe.checkout.sessions.create returns
NewSession(h) ==
  [id |-> Len(sessions) + 1,
   unit_amount |-> co[h].amountCents,
   metadata |-> [slot_id |-> co[h].body.slotId, start |-> co[h].body.start,
                 end |-> co[h].body.end, name |-> co[h].body.name,
                 email |-> co[h].body.email]]

\* stripe.checkout.sessions.create: returns a session, or throws (-> catch, 500)
CheckoutCreateSession(h) ==
  /\ co[h].pc = "create_session"
  /\ \E ok \in BOOLEAN :
       IF ok
       THEN /\ sessions' = Append(sessions, NewSession(h))
            /\ Goes(h, [co[h] EXCEPT !.pc = "insert_hold", !.session = Len(sessions) + 1])
       ELSE /\ sessions' = sessions
            /\ Respond(h, 500)
  /\ UNCHANGED <<now, bookings, slot_holds, paid, wh, supabase, ls, call>>

\* a hold row written without the session it belongs to
HoldRow_NoSession(h) ==
  [slot_id |-> co[h].body.slotId,
   start_ts |-> toISOString(ParseDate(co[h].body.start)),
   end_ts |-> toISOString(ParseDate(co[h].body.end)),
   customer_name |-> co[h].body.name,
   customer_email |-> co[h].body.email,
   expires_at |-> co[h].expiresAt,
   checkout_session_id |-> 0]

\* the row the handler inserts into slot_holds
HoldRow(h) ==
  [slot_id |-> co[h].body.slotId,
   start_ts |-> toISOString(ParseDate(co[h].body.start)),
   end_ts |-> toISOString(ParseDate(co[h].body.end)),
   customer_name |-> co[h].body.name,
   customer_email |-> co[h].body.email,
   expires_at |-> co[h].expiresAt,
   checkout_session_id |-> co[h].session]

\* insert the hold (the result of the call is not looked at), answer
\* { url: session.url }
CheckoutInsertHold(h) ==
  /\ co[h].pc = "insert_hold"
  /\ slot_holds' \in InsertResults(slot_holds, HoldRow(h))
  /\ Respond(h, 200)
  /\ UNCHANGED <<now, bookings, sessions, paid, wh, supabase, ls, call>>

\* ------------------------------------------------------------------ Stripe
\* The customer pays at the session's URL.  The URL reaches the customer with
\* the handler's 200 response; Stripe keeps a session payable for 24 hours,
\* whatever becomes of the hold.
Pay(s) ==
  /\ s \in 1..Len(sessions)
  /\ s \notin paid
  /\ \A h \in CheckoutHandlers : ~(co[h].pc = "insert_hold" /\ co[h].session = s)
  /\ paid' = paid \cup {s}
  /\ UNCHANGED <<now, bookings, slot_holds, sessions, co, wh, supabase, ls, call>>
  /\ res' = NoRes

\* ------------------------------------------------------------------ webhook
\* POST /api/stripe/webhook, event checkout.session.completed of session s.
\* Stripe delivers at least once: a paid session's event may arrive again, also
\* while an earlier delivery is still being handled.  Without a Supabase
\* client the handler touches no table and answers { received: true }.
WebhookStart(w, s) ==
  /\ wh[w].pc = "idle"
  /\ \A v \in WebhookHandlers : v < w => wh[v].pc # "idle"
  /\ s \in paid
  /\ Used < MaxBudget
  /\ IF supabase = "null"
     THEN /\ wh' = wh
          /\ res' = [route |-> "webhook", handler |-> w, status |-> 200]
     ELSE /\ wh' = [v \in WebhookHandlers |->
                     IF v = w
                     THEN [pc |-> "q_booking", event |-> s,
                           seq |-> /\ \A u \in WebhookHandlers : wh[u].pc = "idle"
                                   /\ \E r \in DOMAIN bookings : r.stripe_payment_intent = s]
                     ELSE [wh[v] EXCEPT !.seq = FALSE]]
          /\ res' = NoRes
  /\ UNCHANGED <<now, bookings, slot_holds, sessions, paid, co, supabase, ls, call>>

WebhookQueryBooking(w) ==
  /\ wh[w].pc = "q_booking"
  /\ LET existing == data(SelectEq(bookings, sessions[wh[w].event].metadata.slot_id))
     IN  wh' = [wh EXCEPT ![w].pc = IF existing = <<>> THEN "insert_booking" ELSE "delete_hold"]
  /\ UNCHANGED <<now, bookings, slot_holds, sessions, paid, co, supabase, ls, call>>
  /\ res' = NoRes

\* session.amount_total: one line item, quantity 1, no tax or discount
amount_total(session) == session.unit_amount

\* a row whose amount is read from a field the session does not have, so that
\* the "|| 0" fallback is what gets stored
BookingRow_NoAmount(session) ==
  [slot_id |-> session.metadata.slot_id,
   start_ts |-> toISOString(ParseDate(session.metadata.start)),
   end_ts |-> toISOString(ParseDate(session.metadata.end)),
   customer_name |-> session.metadata.name,
   customer_email |-> session.metadata.email,
   amount_cents |-> 0,
   currency |-> "usd",
   stripe_payment_intent |-> session.id]

\* the row the handler inserts into bookings
BookingRow(session) ==
  [slot_id |-> session.metadata.slot_id,
   start_ts |-> toISOString(ParseDate(session.metadata.start)),
   end_ts |-> toISOString(ParseDate(session.metadata.end)),
   customer_name |-> session.metadata.name,
   customer_email |-> session.metadata.email,
   amount_cents |-> amount_total(session),
   currency |-> "usd",
   stripe_payment_intent |-> session.id]

WebhookInsertBooking(w) ==
  /\ wh[w].pc = "insert_booking"
  /\ bookings' \in InsertResults(bookings, BookingRow(sessions[wh[w].event]))
  /\ wh' = [wh EXCEPT ![w].pc = "delete_hold"]
  /\ UNCHANGED <<now, slot_holds, sessions, paid, co, supabase, ls, call>>
  /\ res' = NoRes

WebhookDeleteHold(w) ==
  /\ wh[w].pc = "delete_hold"
  /\ slot_holds' = DeleteEq(slot_holds, sessions[wh[w].event].metadata.slot_id)
  /\ wh' = [wh EXCEPT ![w] = WhIdle]
  /\ res' = [route |-> "webhook", handler |-> w, status |-> 200]
  /\ UNCHANGED <<now, bookings, sessions, paid, co, supabase, ls, call>>

\* ------------------------------------------------------------------ clock
Tick ==
  /\ Used < MaxBudget
  /\ now' = now + TICK_MS
  /\ UNCHANGED <<bookings, slot_holds, sessions, paid, co, wh, supabase, ls, call>>
  /\ res' = NoRes

\* ------------------------------------------------------------------ system
Steps ==
  \/ \E h \in CheckoutHandlers : CheckoutQueryBooking(h)
  \/ \E h \in CheckoutHandlers : CheckoutQueryHold(h)
  \/ \E h \in CheckoutHandlers : CheckoutCreateSession(h)
  \/ \E h \in CheckoutHandlers : CheckoutInsertHold(h)
  \/ \E s \in 1..MaxBudget : Pay(s)
  \/ \E w \in WebhookHandlers, s \in 1..MaxBudget : WebhookStart(w, s)
  \/ \E w \in WebhookHandlers : WebhookQueryBooking(w)
  \/ \E w \in WebhookHandlers : WebhookInsertBooking(w)
  \/ \E w \in WebhookHandlers : WebhookDeleteHold(w)
  \/ Tick

Next ==
  \/ \E h \in CheckoutHandlers, body \in RequestBodies : CheckoutStart(h, body)
  \/ Steps

Spec == Init /\ [][Next]_vars

\* ------------------------------------------------------------------ listing
\* GET /api/slots.  The feed is fetched, cut into segments and priced at the
\* handler's now; the two datastore queries are steps of their own.

\* a listing that prices every segment as the hour beginning at its start
SegmentPrice_FullHour ==
  [b \in UNION { UNION { SeqRange(expandIntoSegments40(ev.start, ev.end)) : ev \in events } :
                 events \in Feeds }
     |-> priceIntervalCents(toISOString(b.start), toISOString(b.start + HOUR_MS))]

\* price_cents of every segment a feed can contain, computed once
SegmentPrice ==
  [b \in UNION { UNION { SeqRange(expandIntoSegments40(ev.start, ev.end)) : ev \in events } :
                 events \in Feeds }
     |-> priceIntervalCents(toISOString(b.start), toISOString(b.end))]

\* a listing that keeps the segments that are over
Expanded_KeepPast(events, t) ==
  { [id |-> slotId(b.start, b.end), start |-> b.start, end |-> b.end,
     price_cents |-> SegmentPrice[b]] :
      b \in UNION { SeqRange(expandIntoSegments40(ev.start, ev.end)) :
                      ev \in { e \in events : ~(e.end <= t) } } }

\* expanded: the priced segments of the events that are not over, less the
\* segments that are over, at the handler's now t (as a set: the order of the
\* list is of no consequence to the handler)
Expanded(events, t) ==
  { [id |-> slotId(b.start, b.end), start |-> b.start, end |-> b.end,
     price_cents |-> SegmentPrice[b]] :
      b \in UNION { { s \in SeqRange(expandIntoSegments40(ev.start, ev.end)) : ~(s.end <= t) } :
                      ev \in { e \in events : ~(e.end <= t) } } }

\* the feed is fetched (or the fetch fails: 502); without a Supabase client the
\* handler answers with every segment it expanded
ListStart ==
  /\ ls.pc = "idle"
  /\ \E ok \in BOOLEAN, events \in Feeds :
       IF ~ok
       THEN /\ ls' = LsIdle
            /\ res' = [route |-> "slots", handler |-> 0, status |-> 502]
       ELSE IF supabase = "null"
       THEN /\ ls' = [LsIdle EXCEPT !.pc = "done", !.now = now,
                                    !.expanded = Expanded(events, now),
                                    !.out = Expanded(events, now)]
            /\ res' = [route |-> "slots", handler |-> 0, status |-> 200]
       ELSE /\ ls' = [pc |-> "q_bookings", now |-> now, expanded |-> Expanded(events, now),
                      bookedSet |-> {}, out |-> {}]
            /\ res' = NoRes
  /\ UNCHANGED <<now, bookings, slot_holds, sessions, paid, co, wh, supabase, call>>

\* a listing that hides no booked segment
BookedSet_Empty(table) == {}

\* bookedSet: (bookedResp.data || []).map(r => r.slot_id); a failed query is
\* logged and read as no rows
BookedSet(table) ==
  IF supabase = "error" THEN {} ELSE { r.slot_id : r \in DOMAIN table }

\* a listing that also hides the segments whose hold has expired
HeldSet_All(table, t) ==
  IF supabase = "error" THEN {} ELSE { r.slot_id : r \in DOMAIN table }

\* heldSet: the slot_ids of the holds with expires_at > t; a failed query is
\* logged and read as no rows
HeldSet(table, t) ==
  IF supabase = "error" THEN {}
  ELSE { r.slot_id : r \in { x \in DOMAIN table : x.expires_at.ms > t.ms } }

\* "Remove booked segments"
ListQueryBookings ==
  /\ ls.pc = "q_bookings"
  /\ ls' = [ls EXCEPT !.pc = "q_holds", !.bookedSet = BookedSet(bookings)]
  /\ res' = NoRes
  /\ UNCHANGED <<now, bookings, slot_holds, sessions, paid, co, wh, supabase, call>>

\* "Remove active holds", then the answer
ListQueryHolds ==
  /\ ls.pc = "q_holds"
  /\ LET heldSet == HeldSet(slot_holds, toISOString(now))
         filtered == { s \in ls.expanded : s.id \notin ls.bookedSet /\ s.id \notin heldSet }
     IN  ls' = [ls EXCEPT !.pc = "done", !.out = filtered]
  /\ res' = [route |-> "slots", handler |-> 0, status |-> 200]
  /\ UNCHANGED <<now, bookings, slot_holds, sessions, paid, co, wh, supabase, call>>

\* the client has read the listing
ListClose ==
  /\ ls.pc = "done"
  /\ ls' = LsIdle
  /\ res' = NoRes
  /\ UNCHANGED <<now, bookings, slot_holds, sessions, paid, co, wh, supabase, call>>

\* ------------------------------------------------------------------ environment
\* the datastore becomes unreachable while a request is being served, and
\* reachable again.  (No handler calls the datastore in its first step, so a
\* request that arrives during an outage fares as one that the outage
\* overtakes right after its arrival.)
SupabaseFails ==
  /\ supabase = "ok"
  /\ \/ \E h \in CheckoutHandlers : co[h].pc \notin {"idle", "done"}
     \/ \E w \in WebhookHandlers : wh[w].pc # "idle"
     \/ ls.pc \notin {"idle", "done"}
  /\ supabase' = "error"
  /\ res' = NoRes
  /\ UNCHANGED <<now, bookings, slot_holds, sessions, paid, co, wh, ls, call>>

SupabaseRecovers ==
  /\ supabase = "error"
  /\ supabase' = "ok"
  /\ res' = NoRes
  /\ UNCHANGED <<now, bookings, slot_holds, sessions, paid, co, wh, ls, call>>

\* POST /api/stripe/webhook with a body whose signature does not verify:
\* constructEvent throws and the handler answers 400
WebhookBadSignature(w) ==
  /\ res' = [route |-> "webhook", handler |-> w, status |-> 400]
  /\ UNCHANGED <<now, bookings, slot_holds, sessions, paid, co, wh, supabase, ls, call>>

\* ------------------------------------------------------------------ one request at a time
\* The server serving requests one after the other while the clock moves and
\* the datastore comes and goes: checkout and webhook requests of every shape
\* (SpecOps), and listing requests among checkouts and webhooks of the feed's
\* two segments, with or without a Supabase client (SpecList).
Quiet ==
  /\ \A h \in CheckoutHandlers : co[h].pc = "idle"
  /\ \A w \in WebhookHandlers : wh[w].pc = "idle"
  /\ ls.pc = "idle"
  /\ supabase # "error"

OpsInit ==
  /\ now = StartNow
  /\ bookings = EmptyBag
  /\ slot_holds = EmptyBag
  /\ sessions = <<>>
  /\ paid = {}
  /\ co = [h \in CheckoutHandlers |-> CoIdle]
  /\ wh = [w \in WebhookHandlers |-> WhIdle]
  /\ res = NoRes
  /\ supabase \in {"null", "ok"}
  /\ ls = LsIdle
  /\ call = NoCall

OpsNext ==
  \/ \E body \in OpsBodies : Quiet /\ Used < MaxBudget - 1 /\ CheckoutStart(1, body)
  \/ \E h \in CheckoutHandlers : CheckoutQueryBooking(h)
  \/ \E h \in CheckoutHandlers : CheckoutQueryHold(h)
  \/ \E h \in CheckoutHandlers : CheckoutCreateSession(h)
  \/ \E h \in CheckoutHandlers : CheckoutInsertHold(h)
  \/ \E s \in 1..MaxBudget : Pay(s)
  \/ \E s \in 1..MaxBudget : Quiet /\ Used < MaxBudget - 1 /\ WebhookStart(1, s)
  \/ \E w \in WebhookHandlers : WebhookQueryBooking(w)
  \/ \E w \in WebhookHandlers : WebhookInsertBooking(w)
  \/ \E w \in WebhookHandlers : WebhookDeleteHold(w)
  \/ Quiet /\ WebhookBadSignature(1)
  \/ SupabaseFails
  \/ SupabaseRecovers
  \/ Tick

SpecOps == OpsInit /\ [][OpsNext]_vars

\* the bodies of OpsBodies that ask for a segment of the feed under its id
ListBodies == { b \in OpsBodies : b.name \in {"ann", "bob"} }

ListInit ==
  /\ now = StartNow
  /\ bookings = EmptyBag
  /\ slot_holds = EmptyBag
  /\ sessions = <<>>
  /\ paid = {}
  /\ co = [h \in CheckoutHandlers |-> CoIdle]
  /\ wh = [w \in WebhookHandlers |-> WhIdle]
  /\ res = NoRes
  /\ supabase \in {"null", "ok"}
  /\ ls = LsIdle
  /\ call = NoCall

ListNext ==
  \/ Quiet /\ ListStart
  \/ ListQueryBookings
  \/ ListQueryHolds
  \/ ListClose
  \/ \E body \in ListBodies : Quiet /\ Used < MaxBudget - 1 /\ CheckoutStart(1, body)
  \/ \E h \in CheckoutHandlers : CheckoutQueryBooking(h)
  \/ \E h \in CheckoutHandlers : CheckoutQueryHold(h)
  \/ \E h \in CheckoutHandlers : CheckoutCreateSession(h)
  \/ \E h \in CheckoutHandlers : CheckoutInsertHold(h)
  \/ \E s \in 1..MaxBudget : Pay(s)
  \/ \E s \in 1..MaxBudget : Quiet /\ Used < MaxBudget - 1 /\ WebhookStart(1, s)
  \/ \E w \in WebhookHandlers : WebhookQueryBooking(w)
  \/ \E w \in WebhookHandlers : WebhookInsertBooking(w)
  \/ \E w \in WebhookHandlers : WebhookDeleteHold(w)
  \/ SupabaseFails
  \/ SupabaseRecovers
  \/ Tick

SpecList == ListInit /\ [][ListNext]_vars

\* ------------------------------------------------------------------ the segmenter alone
\* expandIntoSegments40 called on its own with an event of any length: a whole
\* number of hours up to MaxHours, plus nothing, a millisecond, 39 minutes, a
\* millisecond short of 40 minutes, 40 minutes, or a millisecond short of an
\* hour; an event may also end an hour before it starts.  Events start on the
\* hour, off the hour and off the minute.
SegDurations ==
  { h * HOUR_MS + off :
      h \in 0..MaxHours,
      off \in {0, 1, 39 * MINUTE_MS, MIN_SEGMENT_MS - 1, MIN_SEGMENT_MS, HOUR_MS - 1} }
    \cup {0 - HOUR_MS}

SegStarts == { At(0, 9, 0), At(0, 8, 50), At(5, 23, 17) + 1 }

IdleInit ==
  /\ now = StartNow
  /\ bookings = EmptyBag
  /\ slot_holds = EmptyBag
  /\ sessions = <<>>
  /\ paid = {}
  /\ co = [h \in CheckoutHandlers |-> CoIdle]
  /\ wh = [w \in WebhookHandlers |-> WhIdle]
  /\ res = NoRes
  /\ supabase = "ok"
  /\ ls = LsIdle

SegInit ==
  /\ IdleInit
  /\ call \in { [fn |-> "expandIntoSegments40", startDate |-> s, endDate |-> s + d,
                 done |-> FALSE, out |-> <<>>] : s \in SegStarts, d \in SegDurations }

CallExpandIntoSegments40 ==
  /\ call.fn = "expandIntoSegments40"
  /\ ~call.done
  /\ call' = [call EXCEPT !.done = TRUE,
                          !.out = expandIntoSegments40(call.startDate, call.endDate)]
  /\ UNCHANGED <<now, bookings, slot_holds, sessions, paid, co, wh, res, supabase, ls>>

SegNext == CallExpandIntoSegments40

SpecSeg == SegInit /\ [][SegNext]_vars

\* ------------------------------------------------------------------ the pricing function alone
\* priceIntervalCents called on its own: for a range [s, e) and an instant m
\* in it, a caller prices [s, e), [s, m) and [m, e), in any order.

\* the ranges: a weekday morning hour and a 40-minute remainder; ranges across
\* the band edges at 21:45 and 15:45; Friday night to Saturday morning and
\* Sunday night to Monday morning; an hour in each band of each table; ranges
\* running into and lying in the hours without a rate; a range of one
\* millisecond and one that ends half a minute past the minute
PriceRanges ==
  { <<At(0, 9, 0), At(0, 10, 0)>>,
    <<At(0, 10, 0), At(0, 10, 40)>>,
    <<At(0, 21, 30), At(0, 22, 0)>>,
    <<At(0, 15, 0), At(0, 15, 46)>>,
    <<At(4, 22, 30), At(5, 6, 0)>>,
    <<At(6, 22, 30), At(7, 5, 45)>>,
    <<At(0, 5, 35), At(0, 6, 35)>>,
    <<At(5, 5, 50), At(5, 6, 50)>>,
    <<At(0, 16, 0), At(0, 17, 0)>>,
    <<At(5, 12, 0), At(5, 13, 0)>>,
    <<At(0, 21, 45), At(0, 22, 45)>>,
    <<At(5, 21, 45), At(5, 22, 45)>>,
    <<At(0, 22, 0), At(0, 23, 15)>>,
    <<At(0, 23, 0), At(0, 23, 40)>>,
    <<At(0, 9, 0), At(0, 9, 0) + 1>>,
    <<At(0, 9, 0), At(0, 9, 30) + 30000>> }

\* the instants a range is cut at: a minute after its start, 15 and 90 minutes
\* after its start, its middle, half a minute past its middle, a minute and a
\* millisecond before its end, and its end
Cuts(s, e) ==
  { m \in { s + MINUTE_MS, s + 15 * MINUTE_MS, s + 90 * MINUTE_MS,
            s + ((e - s) \div (2 * MINUTE_MS)) * MINUTE_MS,
            s + ((e - s) \div (2 * MINUTE_MS)) * MINUTE_MS + 30000,
            e - MINUTE_MS, e - 1, e } : s < m /\ m <= e }

\* a price not yet returned
NoPrice == -1

PriceInit ==
  /\ IdleInit
  /\ call \in { [fn |-> "priceIntervalCents", s |-> r[1], m |-> m, e |-> r[2],
                 whole |-> NoPrice, left |-> NoPrice, right |-> NoPrice] :
                  r \in PriceRanges, m \in UNION { Cuts(q[1], q[2]) : q \in PriceRanges } }
  /\ call.m \in Cuts(call.s, call.e)

\* priceIntervalCents(s, e)
CallPriceWhole ==
  /\ call.fn = "priceIntervalCents"
  /\ call.whole = NoPrice
  /\ call' = [call EXCEPT !.whole = priceIntervalCents(toISOString(call.s), toISOString(call.e))]
  /\ UNCHANGED <<now, bookings, slot_holds, sessions, paid, co, wh, res, supabase, ls>>

\* priceIntervalCents(s, m)
CallPriceLeft ==
  /\ call.fn = "priceIntervalCents"
  /\ call.left = NoPrice
  /\ call' = [call EXCEPT !.left = priceIntervalCents(toISOString(call.s), toISOString(call.m))]
  /\ UNCHANGED <<now, bookings, slot_holds, sessions, paid, co, wh, res, supabase, ls>>

\* priceIntervalCents(m, e)
CallPriceRight ==
  /\ call.fn = "priceIntervalCents"
  /\ call.right = NoPrice
  /\ call' = [call EXCEPT !.right = priceIntervalCents(toISOString(call.m), toISOString(call.e))]
  /\ UNCHANGED <<now, bookings, slot_holds, sessions, paid, co, wh, res, supabase, ls>>

PriceNext ==
  \/ CallPriceWhole
  \/ CallPriceLeft
  \/ CallPriceRight

SpecPrice == PriceInit /\ [][PriceNext]_vars

\* ------------------------------------------------------------------ the race
\* Two checkout requests for one slot_id arrive together while the slot has
\* neither a booking nor a hold.  Both are followed to their response (keep).
RaceInit ==
  /\ now = StartNow
  /\ bookings = EmptyBag
  /\ slot_holds = EmptyBag
  /\ sessions = <<>>
  /\ paid = {}
  /\ \E b1 \in RequestBodies, b2 \in RequestBodies :
       /\ b1.slotId = b2.slotId
       /\ co = [h \in CheckoutHandlers |->
                  [CoIdle EXCEPT !.pc = "q_booking", !.keep = TRUE,
                                 !.body = IF h = 1 THEN b1 ELSE b2]]
  /\ wh = [w \in WebhookHandlers |-> WhIdle]
  /\ res = NoRes
  /\ supabase = "ok"
  /\ ls = LsIdle
  /\ call = NoCall

SpecRace == RaceInit /\ [][Steps]_vars

\* C1: of two simultaneous checkout requests for the same free slot_id, exactly
\* one succeeds (200, with a redirect URL and a Hold) and the other gets a
\* conflict (409), whatever the interleaving.  Requests that end in a client
\* error (400) or a payment-provider failure (500) are left aside.
C1_ExactlyOneCheckoutWins ==
  ( /\ \A h \in CheckoutHandlers : co[h].pc = "done"
    /\ \A h \in CheckoutHandlers : co[h].resp \in {200, 409} )
  => \E h \in CheckoutHandlers, g \in CheckoutHandlers :
       h # g /\ co[h].resp = 200 /\ co[g].resp = 409

\* ------------------------------------------------------------------ claims of Spec
ranges_overlap(r1, r2) == r1.start_ts.ms < r2.end_ts.ms /\ r2.start_ts.ms < r1.end_ts.ms

HasBooking(sid) == \E r \in DOMAIN bookings : r.slot_id = sid

HasActiveHold(sid) == \E r \in DOMAIN slot_holds : r.slot_id = sid /\ r.expires_at.ms > now

\* C2: for every slot_id at most one checkout ever reaches a completed payment.
C2_AtMostOnePurchasePerSlot ==
  \A s1 \in paid, s2 \in paid :
    s1 # s2 => sessions[s1].metadata.slot_id # sessions[s2].metadata.slot_id

\* C3: the bookings table never holds two rows with the same slot_id.
C3_OneBookingRowPerSlot ==
  \A r \in DOMAIN bookings : BagCardinality(SelectEq(bookings, r.slot_id)) <= 1

\* C4: no two booking rows, and no two unexpired hold rows, cover overlapping
\* time ranges.
C4_NoOverlappingPurchases ==
  /\ \A r1 \in DOMAIN bookings, r2 \in DOMAIN bookings :
       (r1 # r2 \/ bookings[r1] > 1) => ~ranges_overlap(r1, r2)
  /\ \A r1 \in DOMAIN slot_holds, r2 \in DOMAIN slot_holds :
       ( /\ r1 # r2 \/ slot_holds[r1] > 1
         /\ r1.expires_at.ms > now
         /\ r2.expires_at.ms > now )
       => ~ranges_overlap(r1, r2)

\* C5: when an event that was already processed is delivered again and handled
\* with no other delivery in flight (seq), the slot has exactly one booking row
\* and no hold when the handler finishes.
C5_ReplayIdempotent ==
  [][ \A w \in WebhookHandlers :
        (wh[w].pc = "delete_hold" /\ wh[w].seq /\ wh'[w].pc = "idle")
        => LET sid == sessions[wh[w].event].metadata.slot_id
           IN  /\ BagCardinality(SelectEq(bookings', sid)) = 1
               /\ SelectEq(slot_holds', sid) = EmptyBag ]_vars

\* the step answered 409 and changed neither table nor created a session
Rejected409(h) ==
  /\ res' = [route |-> "checkout", handler |-> h, status |-> 409]
  /\ UNCHANGED <<bookings, slot_holds, sessions>>

\* C6: a checkout request whose slot_id has a booking row, or a hold row with
\* expires_at > now, when the handler asks the datastore, is answered 409 and
\* has no effect.
C6_TakenSlotRejected ==
  [][ \A h \in CheckoutHandlers :
        /\ (co[h].pc = "q_booking" /\ co'[h].pc # "q_booking" /\ HasBooking(co[h].body.slotId))
           => Rejected409(h)
        /\ (co[h].pc = "q_hold" /\ co'[h].pc # "q_hold" /\ HasActiveHold(co[h].body.slotId))
           => Rejected409(h) ]_vars

\* the hold row of request h is in slot_holds
OwnHoldWritten(h) ==
  \E r \in DOMAIN slot_holds :
    /\ r.slot_id = co[h].body.slotId
    /\ r.customer_email = co[h].body.email
    /\ r.expires_at = co[h].expiresAt

PriceOfRange ==
  [r \in { <<b.start, b.end>> : b \in RequestBodies } |-> priceIntervalCents(r[1], r[2])]

\* C9: the amount of every payment session is priceIntervalCents of the start
\* and end it was created for, whatever price the request body carried: two
\* requests in flight that differ only in that price carry the same amount.
C9_ServerSidePrice ==
  /\ \A i \in 1..Len(sessions) :
       sessions[i].unit_amount =
         PriceOfRange[<<sessions[i].metadata.start, sessions[i].metadata.end>>]
  /\ \A h \in CheckoutHandlers :
       co[h].pc \in {"create_session", "insert_hold"}
       => co[h].amountCents = PriceOfRange[<<co[h].body.start, co[h].body.end>>]
  /\ \A h \in CheckoutHandlers, g \in CheckoutHandlers :
       ( /\ co[h].pc \in {"create_session", "insert_hold"}
         /\ co[g].pc \in {"create_session", "insert_hold"}
         /\ [co[h].body EXCEPT !.price = 0] = [co[g].body EXCEPT !.price = 0] )
       => co[h].amountCents = co[g].amountCents

\* C9 witness: a session exists whose request carried another price than the
\* amount charged, next to a request for the same range with a different price.
C9_Witness ==
  \E h \in CheckoutHandlers, g \in CheckoutHandlers :
    /\ co[h].pc = "insert_hold"
    /\ co[h].body.price # sessions[co[h].session].unit_amount
    /\ co[g].pc \in {"create_session", "insert_hold"}
    /\ co[g].body.price # co[h].body.price
    /\ [co[h].body EXCEPT !.price = 0] = [co[g].body EXCEPT !.price = 0]

\* C10: a Hold and a payment session exist only for a (start, end) pair that
\* is a segment the segmenter derives from the feed.
C10_OnlyFeedSegmentsSold ==
  /\ \A i \in 1..Len(sessions) :
       [start |-> ParseDate(sessions[i].metadata.start),
        end |-> ParseDate(sessions[i].metadata.end)] \in FeedSegments
  /\ \A r \in DOMAIN slot_holds :
       [start |-> ParseDate(r.start_ts), end |-> ParseDate(r.end_ts)] \in FeedSegments

\* C11: every hold row and every booking row carries the slot_id that slotId
\* computes from the row's own start and end, the id under which listing
\* publishes (and hides) that segment.
C11_RowIdIsSlotIdOfRange ==
  /\ \A r \in DOMAIN slot_holds :
       r.slot_id = slotId(ParseDate(r.start_ts), ParseDate(r.end_ts))
  /\ \A r \in DOMAIN bookings :
       r.slot_id = slotId(ParseDate(r.start_ts), ParseDate(r.end_ts))

\* ------------------------------------------------------------------ claims of SpecList
\* the step is the listing handler's answer after its two queries
ListAnswers == ls.pc = "q_holds" /\ ls'.pc = "done"

\* C12 as claimed: with a Supabase client, the listing answers with exactly the
\* expanded segments whose slot_id has no booking row and no hold row with
\* expires_at > now, whatever the outcome of the two queries.
C12_PublishedIffFree ==
  [][ ListAnswers
      => ls'.out = { s \in ls.expanded : ~HasBooking(s.id) /\ ~HasActiveHold(s.id) } ]_vars

\* C12 as amended: the listing answers with exactly the expanded segments that
\* are in neither set it read.  A query that succeeds reads every booked
\* slot_id, respectively every slot_id with a hold row with expires_at > now; a
\* query that fails reads the empty set.  So after two queries that succeed a
\* segment is published if and only if it has no booking and no unexpired hold.
C12_PublishedIffNotRead ==
  [][ /\ (ls.pc = "q_bookings" /\ ls'.pc = "q_holds")
         => ls'.bookedSet = IF supabase = "error" THEN {}
                            ELSE { r.slot_id : r \in DOMAIN bookings }
      /\ ListAnswers
         => /\ ls'.out = { s \in ls.expanded :
                            /\ s.id \notin ls.bookedSet
                            /\ supabase # "error" => ~HasActiveHold(s.id) }
            /\ (supabase # "error" /\ \A s \in ls.expanded : HasBooking(s.id) => s.id \in ls.bookedSet)
               => ls'.out = { s \in ls.expanded : ~HasBooking(s.id) /\ ~HasActiveHold(s.id) } ]_vars

\* C12 witness: a listing has just been answered after two queries that
\* succeeded; it hides a booked segment and a held segment and publishes a
\* segment whose hold has expired.
C12_Witness ==
  /\ res = [route |-> "slots", handler |-> 0, status |-> 200]
  /\ supabase = "ok"
  /\ \E s \in ls.expanded : HasBooking(s.id) /\ s \notin ls.out
  /\ \E s \in ls.expanded : ~HasBooking(s.id) /\ HasActiveHold(s.id) /\ s \notin ls.out

\* every segment of a feed that ends after t, with its id and price
FutureSlots(events, t) ==
  { [id |-> slotId(b.start, b.end), start |-> b.start, end |-> b.end,
     price_cents |-> SegmentPrice[b]] :
      b \in { s \in UNION { SeqRange(expandIntoSegments40(ev.start, ev.end)) : ev \in events } :
               s.end > t } }

\* C13: without a Supabase client, a listing request whose feed fetch succeeds
\* is answered 200 with every future segment of the feed, unfiltered; a
\* checkout request is answered 500 at once, and no payment session and no
\* hold ever exist.
C13_DegradedListingNoCheckout ==
  /\ [](supabase = "null"
        => /\ sessions = <<>> /\ slot_holds = EmptyBag /\ bookings = EmptyBag
           /\ \A h \in CheckoutHandlers : co[h].pc = "idle"
           /\ ls.pc \in {"idle", "done"})
  /\ [][ supabase = "null"
         => /\ res'.route = "checkout" => res'.status = 500
            /\ (ls.pc = "idle" /\ ls' # ls)
               => /\ res' = [route |-> "slots", handler |-> 0, status |-> 200]
                  /\ ls'.pc = "done"
                  /\ \E events \in Feeds : ls'.out = FutureSlots(events, now)
            /\ (ls.pc = "idle" /\ res'.route = "slots")
               => res'.status \in {200, 502} ]_vars

\* C13 witness: without a Supabase client a listing has just been answered with
\* both segments of the block 09:00-10:40.
C13_Witness ==
  /\ supabase = "null"
  /\ res = [route |-> "slots", handler |-> 0, status |-> 200]
  /\ ls.pc = "done"
  /\ Cardinality(ls.out) = 2

\* the slot has a hold row, every hold row of it has expired, and it has no
\* booking row
ExpiredOnly(sid) ==
  /\ ~HasBooking(sid)
  /\ \E r \in DOMAIN slot_holds : r.slot_id = sid
  /\ ~HasActiveHold(sid)

\* C16: a hold row expires at most 15 minutes after it is written (its expiry
\* is fixed, while the checkout runs, at 15 minutes from then).  Once every
\* hold row of a slot has expired, and the slot has no booking, a listing that
\* expanded the slot publishes it and a checkout request for it passes the
\* booking check and the hold check; the expired rows are still stored then
\* and these steps do not touch them.
C16_ExpiredHoldFreesSlot ==
  /\ [](\A r \in DOMAIN slot_holds : r.expires_at.ms <= now + HOLD_TTL_MS)
  /\ [][ /\ ListAnswers
            => /\ \A s \in ls.expanded : ExpiredOnly(s.id) => s \in ls'.out
               /\ slot_holds' = slot_holds
         /\ \A h \in CheckoutHandlers :
              /\ (co[h].pc = "q_booking" /\ co'[h] # co[h] /\ ExpiredOnly(co[h].body.slotId))
                 => co'[h].pc = "q_hold" /\ slot_holds' = slot_holds
              /\ (co[h].pc = "q_hold" /\ co'[h] # co[h] /\ ExpiredOnly(co[h].body.slotId))
                 => /\ co'[h].pc = "create_session"
                    /\ co'[h].expiresAt.ms = now + HOLD_TTL_MS
                    /\ slot_holds' = slot_holds ]_vars

\* C16 witness: a slot without booking whose only hold row has expired and is
\* still stored, and a later payment session created for that slot.
C16_Witness ==
  \E r \in DOMAIN slot_holds, i \in 1..Len(sessions) :
    /\ ExpiredOnly(r.slot_id)
    /\ r.checkout_session_id < i
    /\ sessions[i].metadata.slot_id = r.slot_id

\* C17: no step removes or alters a booking row; a checkout request for a
\* slot_id that has a booking row is answered 409 at the booking check and
\* changes nothing; and no listing answer contains a slot that has a booking
\* row.
C17_BookedIsTerminal ==
  [][ /\ bookings \sqsubseteq bookings'
      /\ \A h \in CheckoutHandlers :
           (co[h].pc = "q_booking" /\ co'[h] # co[h] /\ HasBooking(co[h].body.slotId))
           => Rejected409(h)
      /\ ListAnswers => \A s \in ls'.out : ~HasBooking(s.id) ]_vars

\* C20: the segments a listing request expands are exactly the segments of the
\* fetched feed that end after the handler's now: an event that is over gives
\* none, an event that began earlier gives those of its segments that are not
\* over; and the answer holds only segments of these, so none that ended at or
\* before that now.
C20_OnlyFutureSegments ==
  [][ /\ (ls.pc = "idle" /\ ls'.pc \in {"q_bookings", "done"})
         => /\ ls'.now = now
            /\ \E events \in Feeds :
                 /\ ls'.expanded = FutureSlots(events, now)
                 /\ \A ev \in events :
                      ev.end <= now => \A s \in ls'.expanded : ~(ev.start <= s.start /\ s.end <= ev.end)
      /\ (ls.pc # "done" /\ ls'.pc = "done")
         => /\ ls'.out \subseteq ls'.expanded
            /\ \A s \in ls'.out : s.end > ls'.now ]_vars

\* C20 witness: a listing has been answered with the one segment, already
\* begun, that is left of a block that started in the past.
C20_Witness ==
  /\ ls.pc = "done"
  /\ res = [route |-> "slots", handler |-> 0, status |-> 200]
  /\ Cardinality(ls.out) = 1
  /\ \E s \in ls.out : s.start < ls.now /\ ls.now < s.end /\ s.start = At(0, 8, 50)

\* C27: the price_cents of a slot in a listing answer is the amount of every
\* payment session created for that slot's start and end, and the amount a
\* checkout request for them has computed.
C27_ListedPriceIsCharged ==
  ls.pc = "done"
  => \A s \in ls.out :
       /\ \A i \in 1..Len(sessions) :
            ( /\ ParseDate(sessions[i].metadata.start) = s.start
              /\ ParseDate(sessions[i].metadata.end) = s.end )
            => sessions[i].unit_amount = s.price_cents
       /\ \A h \in CheckoutHandlers :
            ( /\ co[h].pc \in {"create_session", "insert_hold"}
              /\ ParseDate(co[h].body.start) = s.start
              /\ ParseDate(co[h].body.end) = s.end )
            => co[h].amountCents = s.price_cents

\* C27 witness: a listing answer holds the slot 10:00-10:40 at 33000 and a
\* payment session of that amount exists for the same start and end.
C27_Witness ==
  /\ ls.pc = "done"
  /\ \E s \in ls.out, i \in 1..Len(sessions) :
       /\ s.start = At(0, 10, 0) /\ s.end = At(0, 10, 40)
       /\ ParseDate(sessions[i].metadata.start) = s.start
       /\ ParseDate(sessions[i].metadata.end) = s.end
       /\ s.price_cents = 33000
       /\ sessions[i].unit_amount = 33000

\* C28: every slot of a listing answer has price_cents > 0.
C28_PublishedSlotsBillable ==
  ls.pc = "done" => \A s \in ls.out : s.price_cents > 0

\* ------------------------------------------------------------------ claims of SpecOps
\* C14: when the booking query or the hold query of a checkout request comes
\* back with an error, the request is answered 500 and ends there, so that no
\* payment session and no hold are created for it.
C14_QueryFailureIsServiceError ==
  [][ \A h \in CheckoutHandlers :
        (co[h].pc \in {"q_booking", "q_hold"} /\ co'[h] # co[h] /\ supabase = "error")
        => /\ res' = [route |-> "checkout", handler |-> h, status |-> 500]
           /\ co'[h].pc = "idle" ]_vars

\* metadata without slot_id, or whose start or end is missing or unparseable
Malformed(md) ==
  md.slot_id = Undefined \/ ParseDate(md.start) = NaN \/ ParseDate(md.end) = NaN

\* C15: a webhook request whose signature does not verify, and a delivery of an
\* event with malformed metadata, leave bookings and slot_holds as they are;
\* and every booking row belongs to a session whose payment completed.
C15_BadEventsChangeNothing ==
  /\ [](\A r \in DOMAIN bookings : r.stripe_payment_intent \in paid)
  /\ [][ /\ (res'.route = "webhook" /\ res'.status = 400)
            => UNCHANGED <<bookings, slot_holds>>
         /\ \A w \in WebhookHandlers :
              ( /\ wh[w].pc # "idle"
                /\ wh'[w] # wh[w]
                /\ Malformed(sessions[wh[w].event].metadata) )
              => UNCHANGED <<bookings, slot_holds>> ]_vars

\* the request bodies whose range cannot be billed, told without the pricing
\* loop: start or end unparseable, end <= start, or no minute of the range
\* with a rate
NonBillableBodies ==
  { b \in OpsBodies :
      LET s == ParseDate(b.start)
          e == ParseDate(b.end)
      IN  \/ s = NaN
          \/ e = NaN
          \/ e <= s
          \/ \A k \in 0..(LoopPasses(s, e) - 1) : rateCentsAt(s + k * MINUTE_MS) = 0 }

\* priceIntervalCents of every range a body of OpsBodies carries, computed once
PriceOfOpsRange ==
  [r \in { <<b.start, b.end>> : b \in OpsBodies } |-> priceIntervalCents(r[1], r[2])]

\* this step is handler h taking up a request with a non-billable body
StartsNonBillable(h) == \E b \in NonBillableBodies : CheckoutStart(h, b)

\* handler h, at work on a non-billable body, takes this step
StepsNonBillable(h) ==
  co[h].pc # "idle" /\ co'[h] # co[h] /\ co[h].body \in NonBillableBodies

\* what a step of a request that is never sold may do: go on to the hold
\* check, or answer with one of the statuses given, and create neither a
\* session nor a hold
NeverSold(h, statuses) ==
  /\ \/ co'[h].pc = "q_hold" /\ res' = NoRes
     \/ \E st \in statuses : res' = [route |-> "checkout", handler |-> h, status |-> st]
  /\ UNCHANGED <<sessions, slot_holds, bookings>>

\* C18 as claimed: priceIntervalCents is 0 for every non-billable range, and a
\* checkout request for one is answered with a client error (400 or 409) and
\* creates neither a session nor a hold.
C18_NonBillableIsClientError ==
  /\ [](\A b \in NonBillableBodies : PriceOfOpsRange[<<b.start, b.end>>] = 0)
  /\ [][ \A h \in CheckoutHandlers :
           /\ StartsNonBillable(h) => res' = NoRes /\ co'[h].pc = "q_booking"
           /\ StepsNonBillable(h) => NeverSold(h, {400, 409}) ]_vars

\* C18 amended: priceIntervalCents is 0 for every non-billable range, and a
\* checkout request for one creates neither a session nor a hold: it is
\* answered 500 at once when there is no Supabase client, and else with a
\* client error (400, or 409 when its slot_id has a booking or an active hold).
C18_NonBillableNeverSold ==
  /\ [](\A b \in NonBillableBodies : PriceOfOpsRange[<<b.start, b.end>>] = 0)
  /\ [][ \A h \in CheckoutHandlers :
           /\ StartsNonBillable(h)
              => /\ UNCHANGED <<sessions, slot_holds, bookings>>
                 /\ IF supabase = "null"
                    THEN res' = [route |-> "checkout", handler |-> h, status |-> 500]
                    ELSE res' = NoRes /\ co'[h].pc = "q_booking"
           /\ StepsNonBillable(h) => NeverSold(h, {400, 409}) ]_vars

\* C18 witness: a request has just been answered 400, which only the price
\* check does, and no session or hold was made for it.
C18_Witness ==
  /\ res.route = "checkout" /\ res.status = 400
  /\ sessions = <<>>
  /\ slot_holds = EmptyBag

\* C19: every booking row carries the amount of the session whose completed
\* event inserted it, the slot_id, name and email of that session's metadata,
\* and as start_ts and end_ts the instants the metadata's start and end
\* denote, in canonical spelling.
C19_BookingReflectsEvent ==
  \A r \in DOMAIN bookings :
    /\ r.stripe_payment_intent \in 1..Len(sessions)
    /\ LET session == sessions[r.stripe_payment_intent]
           md == session.metadata
       IN  /\ r.amount_cents = session.unit_amount
           /\ r.slot_id = md.slot_id
           /\ r.start_ts = [form |-> "Z", ms |-> md.start.ms]
           /\ r.end_ts = [form |-> "Z", ms |-> md.end.ms]
           /\ md.start.form # "bad" /\ md.end.form # "bad"
           /\ r.customer_name = md.name
           /\ r.customer_email = md.email

\* C19 witness: a booking row of a positive amount, inserted for a session
\* whose metadata spells start and end with a UTC offset.
C19_Witness ==
  \E r \in DOMAIN bookings :
    /\ r.amount_cents > 0
    /\ r.stripe_payment_intent \in 1..Len(sessions)
    /\ sessions[r.stripe_payment_intent].metadata.start.form = "offset"
    /\ r.start_ts.form = "Z"

\* C30: a checkout request is answered 200, with the session's URL, only when
\* the hold of that session is in slot_holds.
C30_UrlOnlyWithHold ==
  [][ \A h \in CheckoutHandlers :
        (co[h].pc = "insert_hold" /\ res' = [route |-> "checkout", handler |-> h, status |-> 200])
        => \E r \in DOMAIN slot_holds' :
             /\ r.checkout_session_id = co[h].session
             /\ r.slot_id = co[h].body.slotId ]_vars

\* ------------------------------------------------------------------ claims of SpecSeg
\* the segmenter has returned, for an event of d milliseconds
Segmented == call.fn = "expandIntoSegments40" /\ call.done

Duration(seg) == seg.end - seg.start

\* C21: for an event shorter than 60 minutes the segmenter returns nothing when
\* the event is shorter than 40 minutes, and the one segment that is the whole
\* event when it lasts 40 minutes or more.
C21_ShortEvents ==
  (Segmented /\ call.endDate - call.startDate < HOUR_MS)
  => IF call.endDate - call.startDate < MIN_SEGMENT_MS
     THEN call.out = <<>>
     ELSE call.out = << [start |-> call.startDate, end |-> call.endDate] >>

\* C21 witness: an event of exactly 40 minutes has come back as one segment.
C21_Witness ==
  /\ Segmented
  /\ call.endDate - call.startDate = MIN_SEGMENT_MS
  /\ Len(call.out) = 1

\* C22: for an event of 60 minutes or more the segments begin at the event's
\* start, each begins where the one before ends, all but the last last 60
\* minutes, the last lasts 60 minutes or lasts at least 40 and ends with the
\* event, and less than 40 minutes of the event are left after the last; and
\* for any event every segment lasts between 40 and 60 minutes.
C22_LongEvents ==
  Segmented
  => LET out == call.out
         n == Len(call.out)
     IN  /\ \A i \in 1..n : Duration(out[i]) >= MIN_SEGMENT_MS /\ Duration(out[i]) <= HOUR_MS
         /\ call.endDate - call.startDate >= HOUR_MS
            => /\ n >= 1
               /\ out[1].start = call.startDate
               /\ \A i \in 1..(n - 1) : out[i + 1].start = out[i].end
               /\ \A i \in 1..(n - 1) : Duration(out[i]) = HOUR_MS
               /\ Duration(out[n]) < HOUR_MS => out[n].end = call.endDate
               /\ out[n].end <= call.endDate
               /\ call.endDate - out[n].end < MIN_SEGMENT_MS

\* C22 witness: an event of two hours and 40 minutes has come back as two
\* whole hours and a last segment of 40 minutes.
C22_Witness ==
  /\ Segmented
  /\ call.endDate - call.startDate = 2 * HOUR_MS + MIN_SEGMENT_MS
  /\ Len(call.out) = 3
  /\ Duration(call.out[3]) = MIN_SEGMENT_MS

\* ------------------------------------------------------------------ claims of SpecPrice
\* the rate table as the specification gives it, in cents per hour, by local
\* day (day 0 is a Monday) and minute of the day
TableRate(t) ==
  LET day == (t \div DAY_MS) % 7
      mod == (t % DAY_MS) \div MINUTE_MS
  IN  IF day \in {5, 6}
      THEN IF 350 <= mod /\ mod < 410 THEN 25000
           ELSE IF 410 <= mod /\ mod < 1305 THEN 94500
           ELSE IF 1305 <= mod /\ mod < 1365 THEN 49500
           ELSE 0
      ELSE IF 335 <= mod /\ mod < 395 THEN 25000
           ELSE IF 395 <= mod /\ mod < 945 THEN 49500
           ELSE IF 945 <= mod /\ mod < 1305 THEN 94500
           ELSE IF 1305 <= mod /\ mod < 1365 THEN 49500
           ELSE 0

\* round(rate / 60) for the rates of the table
PerMinute(rate) ==
  IF rate = 25000 THEN 417
  ELSE IF rate = 49500 THEN 825
  ELSE IF rate = 94500 THEN 1575
  ELSE 0

\* the minutes of [s, e): the instants s, s + 1 minute, ... that lie before e
MinutesOf(s, e) ==
  { t \in { s + k * MINUTE_MS : k \in 0..((e - s) \div MINUTE_MS) } : t < e }

\* the sum over the minutes of [s, e) of round(rate / 60)
TableSum(s, e) ==
    Cardinality({ t \in MinutesOf(s, e) : TableRate(t) = 25000 }) * 417
  + Cardinality({ t \in MinutesOf(s, e) : TableRate(t) = 49500 }) * 825
  + Cardinality({ t \in MinutesOf(s, e) : TableRate(t) = 94500 }) * 1575

\* every minute of [s, e) has the same rate
OneRate(s, e) == \A t \in MinutesOf(s, e) : TableRate(t) = TableRate(s)

Pricing == call.fn = "priceIntervalCents"

\* C23: for s < m < e, also with m off the minute, the prices of [s, m) and
\* [m, e) add up to the price of [s, e).
C23_Additive ==
  ( /\ Pricing
    /\ call.whole # NoPrice /\ call.left # NoPrice /\ call.right # NoPrice
    /\ call.s < call.m /\ call.m < call.e )
  => call.left + call.right = call.whole

\* no instant of [m, e) has a rate
NoRateIn(m, e) ==
  \A t \in { m + j * MINUTE_MS : j \in 0..((e - m) \div MINUTE_MS) } \cup {e - 1} :
    t < e => TableRate(t) = 0

\* C24: for m <= e the price of [s, m) is at most the price of [s, e); when
\* [s, m) is a whole number of minutes and e is a minute after m, the price
\* grows by round(rate / 60) of that minute, which is more than nothing when
\* the minute has a rate; and when no instant of [m, e) has a rate the two
\* prices are equal.
C24_Monotone ==
  (Pricing /\ call.whole # NoPrice /\ call.left # NoPrice)
  => /\ call.left <= call.whole
     /\ ((call.m - call.s) % MINUTE_MS = 0 /\ call.e = call.m + MINUTE_MS)
        => /\ call.whole - call.left = PerMinute(TableRate(call.m))
           /\ TableRate(call.m) > 0 => call.whole > call.left
     /\ NoRateIn(call.m, call.e) => call.whole = call.left

\* C24 witness: Monday 21:45-22:45 has been priced with and without its last
\* minute, which adds 825.
C24_Witness ==
  /\ Pricing /\ call.whole # NoPrice /\ call.left # NoPrice
  /\ call.s = At(0, 21, 45) /\ call.e = call.m + MINUTE_MS
  /\ call.whole = call.left + 825

C26_SumOfMinutes ==
  Pricing
  => /\ call.whole # NoPrice => call.whole = TableSum(call.s, call.e)
     /\ call.left # NoPrice => call.left = TableSum(call.s, call.m)
     /\ (call.right # NoPrice /\ call.m < call.e) => call.right = TableSum(call.m, call.e)
     /\ (call.whole # NoPrice /\ call.s = At(0, 9, 0) /\ call.e = At(0, 10, 0))
        => call.whole = 49500
     /\ (call.whole # NoPrice /\ call.s = At(0, 10, 0) /\ call.e = At(0, 10, 40))
        => call.whole = 33000

\* C26 witness: Friday 22:30 to Saturday 06:00 has been priced at 15 minutes at
\* 495 an hour plus 10 minutes at 250 an hour.
C26_Witness ==
  /\ Pricing
  /\ call.s = At(4, 22, 30) /\ call.e = At(5, 6, 0)
  /\ call.whole = 15 * 825 + 10 * 417

\* [s, e) lasts 60 minutes, all of them at one rate that is not 0
HourInOneBand ==
  /\ Pricing /\ call.whole # NoPrice
  /\ call.e - call.s = HOUR_MS
  /\ OneRate(call.s, call.e)
  /\ TableRate(call.s) > 0

\* C29 as claimed: a 60-minute range inside one band costs the band's hourly
\* rate.
C29_HourCostsHourlyRate == HourInOneBand => call.whole = TableRate(call.s)

\* C29 amended: a 60-minute range inside one band costs 60 times the rate per
\* minute rounded to a cent: 49500 and 94500 in the bands of 495 and 945 an
\* hour, and 25020 in the band of 250 an hour.
C29_HourCostsSixtyMinutes ==
  HourInOneBand
  => /\ call.whole = 60 * PerMinute(TableRate(call.s))
     /\ call.whole = IF TableRate(call.s) = 25000 THEN 25020 ELSE TableRate(call.s)

\* C29 witness: Saturday 05:50-06:50 has been priced at 25020.
C29_Witness ==
  /\ HourInOneBand
  /\ call.s = At(5, 5, 50)
  /\ call.whole = 25020

====
